---- MODULE Spec2Model ----
(***************************************************************************)
(* rest-greeting: cmd/server/main.go.                                      *)
(*                                                                         *)
(* The process serves GET /hello behind the metrics middleware             *)
(* instrumentHandler, serves /metrics on a second listener and shuts both  *)
(* servers down on SIGINT/SIGTERM.  Every request runs in a goroutine of   *)
(* its own; the only state the goroutines share is the two metric vectors. *)
(***************************************************************************)
EXTENDS Integers, Sequences, FiniteSets, TLC

\* ------------------------------------------------------------------ bounds
MaxReq == 2          \* requests to the application listener
MaxAnyReq == 1       \* requests to an arbitrary inner handler (SpecAny)
MaxDrainReq == 1     \* requests the process serves around its shutdown
MaxScrape == 1       \* requests to the metrics listener
MaxElapsed == 1      \* largest latency a request can measure, in abstract units
MaxOps == 2          \* writer calls an arbitrary inner handler makes (SpecAny)

Req == 1..MaxReq
Scrape == 1..MaxScrape

\* ------------------------------------------------------- program constants
StatusOK == 200
StatusMethodNotAllowed == 405
StatusInternalServerError == 500

MethodGet == "GET"
Methods == {"GET", "POST"}

\* The name parameter of the query string: absent, empty, or a value.
Absent == "<absent>"
Queries == {Absent, "", "Ann"}

\* The requests the model sends: helloHandler reads the query of a GET only.
RequestInputs ==
    {<<m, n>> \in Methods \X Queries : m = MethodGet \/ n = Absent}

HelloPath == "/hello"
ContentTypeJSON == "application/json"
ContentTypeText == "text/plain; charset=utf-8"
MsgMethodNotAllowed == "method not allowed"
MsgEncodeFailed == "failed to encode response"

VARIABLES
    pc,               \* position of each request's goroutine
    method,           \* r.Method
    query,            \* the name parameter of r.URL
    script,           \* the writer calls an arbitrary inner handler makes
    ip,               \* how many of them it has made
    status,           \* statusRecorder.status (0 before the recorder exists)
    rw,               \* the server's ResponseWriter of the request
    elapsed,          \* local elapsed of the middleware
    labels,           \* local labels of the middleware
    requestCounter,   \* http_requests_total, series by label set
    requestDuration,  \* http_request_duration_seconds, series by label set
    mainPc,           \* position of main
    httpListener,     \* listener of httpServer
    metricsListener,  \* listener of metricsServer
    ctxExpired,       \* shutdownCtx is past its deadline
    scrapePc          \* position of each request to the metrics listener

vars == <<pc, method, query, script, ip, status, rw, elapsed, labels,
          requestCounter, requestDuration, mainPc, httpListener,
          metricsListener, ctxExpired, scrapePc>>

reqVars == <<pc, method, query, script, ip, status, rw, elapsed, labels>>
metricVars == <<requestCounter, requestDuration>>
mainVars == <<mainPc, httpListener, metricsListener, ctxExpired, scrapePc>>

\* ------------------------------------------------------------ pure helpers
DigitStr == <<"0", "1", "2", "3", "4", "5", "6", "7", "8", "9">>

\* strconv.Itoa on a non-negative int.
RECURSIVE Itoa(_)
Itoa(n) ==
    IF n < 10 THEN DigitStr[n + 1]
    ELSE Itoa(n \div 10) \o DigitStr[(n % 10) + 1]

\* r.URL.Query().Get("name"): the empty string when the parameter is absent.
QueryGet(q) == IF q = Absent THEN "" ELSE q

\* A handler that forgets the default and greets the raw parameter.
GreetingNameNoDefault(q) == QueryGet(q)

\* The name helloHandler greets.
GreetingName(q) == IF QueryGet(q) = "" THEN "World" ELSE QueryGet(q)

\* greetingResponse{Message: "Hello " + name}
GreetingResponse(q) == [Message |-> "Hello " \o GreetingName(q)]

\* json encoding of greetingResponse: one object, its field named by the tag.
EncodeJSON(resp) == [message |-> resp.Message]

\* A plain-text payload, as http.Error writes it (one line of text).
TextBody(msg) == [text |-> msg]

\* prometheus.Labels{"method", "path", "status"}
MakeLabels(m, path, statusCode) == <<m, path, Itoa(statusCode)>>
NoLabels == <<"", "", "">>

\* ------------------------------------------------- the server's writer
\* A ResponseWriter as the handler sees it: the header map's Content-Type,
\* the status code committed to the client (0: none yet), the Content-Type
\* committed with it, the payloads accepted for the body, and whether the
\* server has completed the response (the final flush to the client).
FreshRW ==
    [header |-> "", code |-> 0, sentType |-> "", body |-> <<>>, done |-> FALSE]

\* ResponseWriter.WriteHeader: the first call commits, later calls are ignored.
RWWriteHeader(w, code) ==
    IF w.code = 0 THEN [w EXCEPT !.code = code, !.sentType = w.header] ELSE w

\* ResponseWriter.Write that succeeds: commits 200 when nothing is committed.
RWWrite(w, data) ==
    [RWWriteHeader(w, StatusOK) EXCEPT !.body = Append(@, data)]

\* ResponseWriter.Write that returns an error: the header is committed, the
\* payload is not accepted.
RWWriteFail(w) == RWWriteHeader(w, StatusOK)

\* The server completing a response: 200 is sent when the handler committed
\* nothing, and the response is flushed.
RWFinish(w) == [RWWriteHeader(w, StatusOK) EXCEPT !.done = TRUE]

\* ---------------------------------------------------------- statusRecorder
\* A recorder built without its initial status (the zero value of int).
NewRecorderZero(w) == [ResponseWriter |-> w, status |-> 0]

\* &statusRecorder{ResponseWriter: w, status: http.StatusOK}
NewRecorder(w) == [ResponseWriter |-> w, status |-> StatusOK]

\* (sr *statusRecorder) WriteHeader(code)
WriteHeader(sr, code) ==
    [sr EXCEPT !.status = code, !.ResponseWriter = RWWriteHeader(@, code)]

\* The promoted methods of the embedded ResponseWriter.
Write(sr, data) == [sr EXCEPT !.ResponseWriter = RWWrite(@, data)]
WriteFail(sr) == [sr EXCEPT !.ResponseWriter = RWWriteFail(@)]
HeaderSet(sr, ct) == [sr EXCEPT !.ResponseWriter.header = ct]

\* An error reply that writes its text without setting the status first.
HttpErrorNoStatus(sr, msg, code) ==
    Write(HeaderSet(sr, ContentTypeText), TextBody(msg))

\* http.Error(w, msg, code) on the recorder.
HttpError(sr, msg, code) ==
    Write(WriteHeader(HeaderSet(sr, ContentTypeText), code), TextBody(msg))

Recorder(r) == [ResponseWriter |-> rw[r], status |-> status[r]]

\* Writer calls of an arbitrary inner handler: set a status, or write a body.
AnyCodes == {404, 500}
Ops == [op : {"WriteHeader"}, code : AnyCodes] \cup {[op |-> "Write", code |-> 0]}
RECURSIVE SeqsUpTo(_, _)
SeqsUpTo(S, n) ==
    IF n = 0 THEN {<<>>}
    ELSE LET shorter == SeqsUpTo(S, n - 1)
         IN  shorter \cup {Append(s, x) : s \in shorter, x \in S}
Scripts == SeqsUpTo(Ops, MaxOps)

\* ---------------------------------------------------------- metric vectors
\* CounterVec.With / HistogramVec.With: the series of a label set, created on
\* first use.
CounterWith(vec, l) == IF l \in DOMAIN vec THEN vec ELSE vec @@ (l :> 0)
HistogramWith(vec, l) ==
    IF l \in DOMAIN vec THEN vec ELSE vec @@ (l :> [count |-> 0, sum |-> 0])

\* An increment that starts from a fresh series on every call.
CounterIncFresh(vec, l) == (l :> 1) @@ vec

\* An increment that is applied twice.
CounterIncTwice(vec, l) == [CounterWith(vec, l) EXCEPT ![l] = @ + 2]

\* counter.With(labels).Inc()
CounterInc(vec, l) == [CounterWith(vec, l) EXCEPT ![l] = @ + 1]

\* An observation that adds to the sum and leaves the count alone.
HistogramObserveSumOnly(vec, l, v) ==
    [HistogramWith(vec, l) EXCEPT ![l] = [count |-> @.count, sum |-> @.sum + v]]

\* duration.With(labels).Observe(elapsed)
HistogramObserve(vec, l, v) ==
    [HistogramWith(vec, l) EXCEPT ![l] = [count |-> @.count + 1, sum |-> @.sum + v]]

\* The value of a series, 0 while it does not exist.
CounterValue(l) == IF l \in DOMAIN requestCounter THEN requestCounter[l] ELSE 0
HistogramCount(l) ==
    IF l \in DOMAIN requestDuration THEN requestDuration[l].count ELSE 0

\* -------------------------------------------------------------------- Init
Init ==
    /\ pc = [r \in Req |-> "idle"]
    /\ method = [r \in Req |-> ""]
    /\ query = [r \in Req |-> Absent]
    /\ script = [r \in Req |-> <<>>]
    /\ ip = [r \in Req |-> 0]
    /\ status = [r \in Req |-> 0]
    /\ rw = [r \in Req |-> FreshRW]
    /\ elapsed = [r \in Req |-> 0]
    /\ labels = [r \in Req |-> NoLabels]
    /\ requestCounter = <<>>
    /\ requestDuration = <<>>
    /\ mainPc = "serving"
    /\ httpListener = "open"
    /\ metricsListener = "open"
    /\ ctxExpired = FALSE
    /\ scrapePc = [s \in Scrape |-> "idle"]

\* ------------------------------------------------------ application server
\* The process is alive until main returns.
Alive == mainPc # "done"

\* httpServer accepts a connection and reads a request for /hello.
Accept(r) ==
    /\ Alive
    /\ httpListener = "open"
    /\ pc[r] = "idle"
    /\ \A q \in Req : q < r => pc[q] # "idle"
    /\ \E in \in RequestInputs :
          /\ method' = [method EXCEPT ![r] = in[1]]
          /\ query' = [query EXCEPT ![r] = in[2]]
    /\ pc' = [pc EXCEPT ![r] = "accepted"]
    /\ UNCHANGED <<script, ip, status, rw, elapsed, labels>>
    /\ UNCHANGED <<metricVars, mainVars>>

\* instrumentHandler, lines 166-169: wrap the writer, take the start time,
\* call the inner handler.
MwStart(r) ==
    /\ Alive
    /\ pc[r] = "accepted"
    /\ LET sr == NewRecorder(rw[r])
       IN  /\ status' = [status EXCEPT ![r] = sr.status]
           /\ rw' = [rw EXCEPT ![r] = sr.ResponseWriter]
    /\ pc' = [pc EXCEPT ![r] = "handler"]
    /\ UNCHANGED <<method, query, script, ip, elapsed, labels>>
    /\ UNCHANGED <<metricVars, mainVars>>

\* The recorder of r becomes sr, and r moves to position p.
HandlerStep(r, sr, p) ==
    /\ status' = [status EXCEPT ![r] = sr.status]
    /\ rw' = [rw EXCEPT ![r] = sr.ResponseWriter]
    /\ pc' = [pc EXCEPT ![r] = p]
    /\ UNCHANGED <<method, query, script, ip, elapsed, labels>>
    /\ UNCHANGED <<metricVars, mainVars>>

\* helloHandler, lines 184-187.
HelloMethodNotAllowed(r) ==
    /\ Alive
    /\ pc[r] = "handler"
    /\ method[r] # MethodGet
    /\ HandlerStep(r, HttpError(Recorder(r), MsgMethodNotAllowed,
                                StatusMethodNotAllowed), "returned")

\* helloHandler, lines 189-196, Encode returns nil.
HelloGreeting(r) ==
    /\ Alive
    /\ pc[r] = "handler"
    /\ method[r] = MethodGet
    /\ HandlerStep(r, Write(HeaderSet(Recorder(r), ContentTypeJSON),
                            EncodeJSON(GreetingResponse(query[r]))),
                   "returned")

\* helloHandler, lines 189-196, Encode returns the writer's error.  (A
\* greetingResponse always marshals, so the writer is the only source.)
HelloGreetingWriteErr(r) ==
    /\ Alive
    /\ pc[r] = "handler"
    /\ method[r] = MethodGet
    /\ HandlerStep(r, WriteFail(HeaderSet(Recorder(r), ContentTypeJSON)),
                   "encodeFailed")

\* helloHandler, line 197.
HelloEncodeError(r) ==
    /\ Alive
    /\ pc[r] = "encodeFailed"
    /\ HandlerStep(r, HttpError(Recorder(r), MsgEncodeFailed,
                                StatusInternalServerError), "returned")

\* A middleware that does not wait for the inner handler: it reads the
\* status while the handler is still running.
MwLabelsEarly(r) ==
    /\ Alive
    /\ pc[r] \in {"handler", "returned"}
    /\ \E e \in 0..MaxElapsed : elapsed' = [elapsed EXCEPT ![r] = e]
    /\ labels' = [labels EXCEPT ![r] = MakeLabels(method[r], HelloPath, status[r])]
    /\ pc' = [pc EXCEPT ![r] = "labelled"]
    /\ UNCHANGED <<method, query, script, ip, status, rw>>
    /\ UNCHANGED <<requestCounter, requestDuration>>
    /\ UNCHANGED <<mainPc, httpListener, metricsListener, ctxExpired, scrapePc>>

\* instrumentHandler, lines 171-177: elapsed, statusCode, labels.
MwLabels(r) ==
    /\ Alive
    /\ pc[r] = "returned"
    /\ \E e \in 0..MaxElapsed : elapsed' = [elapsed EXCEPT ![r] = e]
    /\ labels' = [labels EXCEPT ![r] = MakeLabels(method[r], HelloPath, status[r])]
    /\ pc' = [pc EXCEPT ![r] = "labelled"]
    /\ UNCHANGED <<method, query, script, ip, status, rw>>
    /\ UNCHANGED <<metricVars, mainVars>>

\* instrumentHandler, line 178.
MwInc(r) ==
    /\ Alive
    /\ pc[r] = "labelled"
    /\ requestCounter' = CounterInc(requestCounter, labels[r])
    /\ pc' = [pc EXCEPT ![r] = "counted"]
    /\ UNCHANGED <<method, query, script, ip, status, rw, elapsed, labels>>
    /\ UNCHANGED <<requestDuration, mainVars>>

\* A middleware that returns without making its observation.
MwObserveSkipped(r) ==
    /\ Alive
    /\ pc[r] = "counted"
    /\ pc' = [pc EXCEPT ![r] = "observed"]
    /\ UNCHANGED <<method, query, script, ip, status, rw, elapsed, labels>>
    /\ UNCHANGED <<requestCounter, requestDuration>>
    /\ UNCHANGED <<mainPc, httpListener, metricsListener, ctxExpired, scrapePc>>

\* instrumentHandler, lines 179-180: observe, then return to the server.
MwObserve(r) ==
    /\ Alive
    /\ pc[r] = "counted"
    /\ requestDuration' = HistogramObserve(requestDuration, labels[r], elapsed[r])
    /\ pc' = [pc EXCEPT ![r] = "observed"]
    /\ UNCHANGED <<method, query, script, ip, status, rw, elapsed, labels>>
    /\ UNCHANGED <<requestCounter, mainVars>>

\* The server, once the handler has returned: the response is completed and
\* flushed to the client, and the connection is idle again.
ServerFinish(r) ==
    /\ Alive
    /\ pc[r] = "observed"
    /\ rw' = [rw EXCEPT ![r] = RWFinish(@)]
    /\ pc' = [pc EXCEPT ![r] = "finished"]
    /\ UNCHANGED <<method, query, script, ip, status, elapsed, labels>>
    /\ UNCHANGED <<metricVars, mainVars>>

\* A request the application server is still working on.
InFlight(r) == pc[r] \notin {"idle", "finished"}

\* --------------------------------------------------------- metrics server
ScrapeAccept(s) ==
    /\ Alive
    /\ metricsListener = "open"
    /\ scrapePc[s] = "idle"
    /\ scrapePc' = [scrapePc EXCEPT ![s] = "serving"]
    /\ UNCHANGED <<reqVars, metricVars, mainPc, httpListener, metricsListener, ctxExpired>>

ScrapeFinish(s) ==
    /\ Alive
    /\ scrapePc[s] = "serving"
    /\ scrapePc' = [scrapePc EXCEPT ![s] = "finished"]
    /\ UNCHANGED <<reqVars, metricVars, mainPc, httpListener, metricsListener, ctxExpired>>

\* -------------------------------------------------------------------- main
\* Lines 150-154: the signal arrives, shutdownCtx is created.
ReceiveSignal ==
    /\ mainPc = "serving"
    /\ mainPc' = "signalled"
    /\ UNCHANGED <<reqVars, metricVars, httpListener, metricsListener, ctxExpired, scrapePc>>

\* shutdownCtx reaches its deadline.
DeadlineExpires ==
    /\ mainPc \in {"signalled", "httpShutdown", "metricsShutdown"}
    /\ ~ctxExpired
    /\ ctxExpired' = TRUE
    /\ UNCHANGED <<reqVars, metricVars, mainPc, httpListener, metricsListener, scrapePc>>

\* Line 156, httpServer.Shutdown is entered: its listener is closed.
HttpShutdownBegin ==
    /\ mainPc = "signalled"
    /\ mainPc' = "httpShutdown"
    /\ httpListener' = "closed"
    /\ UNCHANGED <<reqVars, metricVars, metricsListener, ctxExpired, scrapePc>>

\* A shutdown that waits for the application server without a deadline.
MetricsShutdownBeginNoDeadline ==
    /\ mainPc = "httpShutdown"
    /\ \A r \in Req : ~InFlight(r)
    /\ mainPc' = "metricsShutdown"
    /\ metricsListener' = "closed"
    /\ UNCHANGED <<reqVars, metricVars, httpListener, ctxExpired, scrapePc>>

\* Line 156 returns (no request in flight, or the deadline passed) and line
\* 157, metricsServer.Shutdown, is entered: its listener is closed.
MetricsShutdownBegin ==
    /\ mainPc = "httpShutdown"
    /\ ctxExpired \/ \A r \in Req : ~InFlight(r)
    /\ mainPc' = "metricsShutdown"
    /\ metricsListener' = "closed"
    /\ UNCHANGED <<reqVars, metricVars, httpListener, ctxExpired, scrapePc>>

\* Line 157 returns and main logs "shutdown complete" and returns.
ShutdownComplete ==
    /\ mainPc = "metricsShutdown"
    /\ ctxExpired \/ \A s \in Scrape : scrapePc[s] # "serving"
    /\ mainPc' = "done"
    /\ UNCHANGED <<reqVars, metricVars, httpListener, metricsListener, ctxExpired, scrapePc>>

\* --------------------------------- instrumentHandler on an arbitrary handler
AnyReq == 1..MaxAnyReq

\* A request to a handler built by instrumentHandler(HelloPath, ..., h), where
\* h makes the writer calls of some script and returns.
AcceptAny(r) ==
    /\ pc[r] = "idle"
    /\ \A q \in AnyReq : q < r => pc[q] # "idle"
    /\ \E m \in Methods, sc \in Scripts :
          /\ method' = [method EXCEPT ![r] = m]
          /\ script' = [script EXCEPT ![r] = sc]
    /\ pc' = [pc EXCEPT ![r] = "accepted"]
    /\ UNCHANGED <<query, ip, status, rw, elapsed, labels>>
    /\ UNCHANGED <<metricVars, mainVars>>

\* The next writer call of the inner handler.
NextOp(r) == script[r][ip[r] + 1]

AnyStep(r, sr) ==
    /\ status' = [status EXCEPT ![r] = sr.status]
    /\ rw' = [rw EXCEPT ![r] = sr.ResponseWriter]
    /\ ip' = [ip EXCEPT ![r] = @ + 1]
    /\ UNCHANGED <<pc, method, query, script, elapsed, labels>>
    /\ UNCHANGED <<metricVars, mainVars>>

\* The inner handler calls w.WriteHeader(code).
AnyWriteHeader(r) ==
    /\ pc[r] = "handler"
    /\ ip[r] < Len(script[r])
    /\ NextOp(r).op = "WriteHeader"
    /\ AnyStep(r, WriteHeader(Recorder(r), NextOp(r).code))

\* The inner handler calls w.Write(body).
AnyWrite(r) ==
    /\ pc[r] = "handler"
    /\ ip[r] < Len(script[r])
    /\ NextOp(r).op = "Write"
    /\ AnyStep(r, Write(Recorder(r), TextBody("body")))

\* The inner handler returns.
AnyReturn(r) ==
    /\ pc[r] = "handler"
    /\ ip[r] = Len(script[r])
    /\ pc' = [pc EXCEPT ![r] = "returned"]
    /\ UNCHANGED <<method, query, script, ip, status, rw, elapsed, labels>>
    /\ UNCHANGED <<metricVars, mainVars>>

NextAny ==
    \/ \E r \in AnyReq : AcceptAny(r)
    \/ \E r \in AnyReq : MwStart(r)
    \/ \E r \in AnyReq : AnyWriteHeader(r)
    \/ \E r \in AnyReq : AnyWrite(r)
    \/ \E r \in AnyReq : AnyReturn(r)
    \/ \E r \in AnyReq : MwLabels(r)
    \/ \E r \in AnyReq : MwInc(r)
    \/ \E r \in AnyReq : MwObserve(r)
    \/ \E r \in AnyReq : ServerFinish(r)

\* The middleware around an arbitrary inner handler.
SpecAny == Init /\ [][NextAny]_vars

\* ------------------------------------------------------------ the program
\* The steps of the request goroutines of the application server.
Serve(R) ==
    \/ \E r \in R : Accept(r)
    \/ \E r \in R : MwStart(r)
    \/ \E r \in R : HelloMethodNotAllowed(r)
    \/ \E r \in R : HelloGreeting(r)
    \/ \E r \in R : HelloGreetingWriteErr(r)
    \/ \E r \in R : HelloEncodeError(r)
    \/ \E r \in R : MwLabels(r)
    \/ \E r \in R : MwInc(r)
    \/ \E r \in R : MwObserve(r)
    \/ \E r \in R : ServerFinish(r)

Next == Serve(Req)

\* The process while main waits for a signal (line 150): the application
\* server serves /hello concurrently.
Spec == Init /\ [][Next]_vars

DrainReq == 1..MaxDrainReq

NextProcess ==
    \/ Serve(DrainReq)
    \/ \E s \in Scrape : ScrapeAccept(s)
    \/ \E s \in Scrape : ScrapeFinish(s)
    \/ ReceiveSignal
    \/ DeadlineExpires
    \/ HttpShutdownBegin
    \/ MetricsShutdownBegin
    \/ ShutdownComplete

\* The whole process: both servers, and main from the signal to its return.
ProcessSpec == Init /\ [][NextProcess]_vars

\* main is a goroutine the scheduler keeps running, and the runtime's timer
\* ends shutdownCtx: once the signal has arrived, main's steps and the
\* deadline are taken.  Nothing forces a signal, a request or a handler.
Fairness ==
    /\ WF_vars(HttpShutdownBegin)
    /\ WF_vars(MetricsShutdownBegin)
    /\ WF_vars(ShutdownComplete)
    /\ WF_vars(DeadlineExpires)

FairSpec == ProcessSpec /\ Fairness

\* ================================================================ properties
\* Positions of a request's goroutine, by what it has already done.
PosReturned == {"returned", "labelled", "counted", "observed", "finished"}
PosLabelled == {"labelled", "counted", "observed", "finished"}
PosCounted == {"counted", "observed", "finished"}
PosObserved == {"observed", "finished"}

\* The decimal text of the status codes that occur, written out.
StatusString(c) ==
    CASE c = 200 -> "200"
      [] c = 404 -> "404"
      [] c = 405 -> "405"
      [] c = 500 -> "500"
      [] OTHER -> "?"

\* Every label set that has a series, or that a request could be recorded under.
AllSeries ==
    DOMAIN requestCounter \cup DOMAIN requestDuration
        \cup {<<m, HelloPath, StatusString(c)>> : m \in Methods, c \in {200, 404, 405, 500}}

\* The requests at one of the positions ps whose labels are l.
Recorded(ps, l) == {r \in Req : pc[r] \in ps /\ labels[r] = l}

\* C1: every invocation whose inner handler returned is recorded exactly
\* once in the counter and exactly once in the histogram, both under the
\* label set (request method, configured path, text of the captured status):
\* each counter series holds exactly the invocations past line 178 with its
\* labels, each histogram series exactly those past line 179.
C1_ExactlyOnePerInvocation ==
    /\ \A r \in Req :
          pc[r] \in PosLabelled =>
              labels[r] = <<method[r], "/hello", StatusString(status[r])>>
    /\ \A l \in AllSeries :
          /\ CounterValue(l) = Cardinality(Recorded(PosCounted, l))
          /\ HistogramCount(l) = Cardinality(Recorded(PosObserved, l))

\* C1 witness: an invocation that ended in the encoding-error path is
\* complete, recorded once under status "500".
C1_Witness ==
    \E r \in Req :
        /\ pc[r] = "finished"
        /\ labels[r] = <<"GET", "/hello", "500">>
        /\ CounterValue(labels[r]) = 1
        /\ HistogramCount(labels[r]) = 1

\* A request answered by the greeting: 200 and one JSON payload.
AnsweredGreeting(r) ==
    /\ rw[r].code = 200
    /\ Len(rw[r].body) = 1
    /\ DOMAIN rw[r].body[1] = {"message"}

\* A request answered 405.
AnsweredNotAllowed(r) == rw[r].code = 405

\* The completed requests with method m that were sent status c.
Answered(m, c) ==
    {r \in Req : pc[r] = "finished" /\ method[r] = m /\ rw[r].code = c}

\* C2: whatever the interleaving, once every request has completed, each a
\* GET answered 200 with the greeting or a non-GET answered 405, the counter
\* series of (method, "/hello", status) equals the number of completed
\* requests with that method that were sent that status, and no other series
\* exists.
C2_LosslessSeparatedCounts ==
    ( /\ \A r \in Req : pc[r] \in {"idle", "finished"}
      /\ \A r \in Req :
            pc[r] = "finished" => AnsweredGreeting(r) \/ AnsweredNotAllowed(r) )
    => /\ \A m \in Methods, c \in {200, 405} :
             CounterValue(<<m, "/hello", StatusString(c)>>)
                 = Cardinality(Answered(m, c))
       /\ DOMAIN requestCounter \subseteq
             {<<m, "/hello", StatusString(c)>> : m \in Methods, c \in {200, 405}}

\* C2 witness: two successful GETs completed, and the GET/200 series holds 2.
C2_Witness ==
    /\ \A r \in Req : pc[r] \in {"idle", "finished"}
    /\ Cardinality({r \in Req : pc[r] = "finished" /\ method[r] = "GET"
                                   /\ AnsweredGreeting(r)}) >= 2
    /\ \A r \in Req : pc[r] = "finished" => AnsweredGreeting(r)
    /\ CounterValue(<<"GET", "/hello", "200">>) >= 2

\* C10: for every label set the histogram count is at most the counter, the
\* difference being the number of requests between line 178 and line 179;
\* with no request in flight the two are equal; neither ever decreases.
C10_Inv ==
    \A l \in AllSeries :
        /\ HistogramCount(l) <= CounterValue(l)
        /\ CounterValue(l) - HistogramCount(l)
               = Cardinality(Recorded({"counted"}, l))
        /\ (\A r \in Req : ~InFlight(r)) => HistogramCount(l) = CounterValue(l)

C10_Monotonic ==
    /\ DOMAIN requestCounter \subseteq DOMAIN requestCounter'
    /\ DOMAIN requestDuration \subseteq DOMAIN requestDuration'
    /\ \A l \in DOMAIN requestCounter : requestCounter'[l] >= requestCounter[l]
    /\ \A l \in DOMAIN requestDuration :
          requestDuration'[l].count >= requestDuration[l].count

C10_HistogramTrailsCounter == [](C10_Inv) /\ [][C10_Monotonic]_vars

\* C10 witness: a request sits between its increment and its observation
\* while another one, with the same labels, is complete.
C10_Witness ==
    \E r, q \in Req :
        /\ pc[r] = "counted"
        /\ pc[q] = "finished"
        /\ labels[q] = labels[r]
        /\ CounterValue(labels[r]) = 2
        /\ HistogramCount(labels[r]) = 1

\* The status the client is sent: the one the writer committed, or 200 when
\* the handler committed none.
SentStatus(w) == IF w.code = 0 THEN 200 ELSE w.code

\* C3: the captured status is first-write-wins, a set-status call made after
\* the status was committed leaves it unchanged, so the status label a
\* request is recorded under is the status code the client was sent.
C3_StatusLabelIsStatusSent ==
    \A r \in Req :
        pc[r] \in PosLabelled => labels[r][3] = StatusString(SentStatus(rw[r]))

\* The inner handler of r never calls WriteHeader.
NoSetStatus(r) ==
    \A i \in 1..Len(script[r]) : script[r][i].op # "WriteHeader"

C4_Inv ==
    \A r \in Req :
        (pc[r] \in PosLabelled /\ NoSetStatus(r)) =>
            /\ labels[r] = <<method[r], "/hello", "200">>
            /\ pc[r] \in PosCounted => CounterValue(<<method[r], "/hello", "200">>) >= 1
            /\ pc[r] \in PosObserved => HistogramCount(<<method[r], "/hello", "200">>) >= 1

C4_WritePassesThrough ==
    \A r \in Req :
        ( /\ pc[r] = "handler"
          /\ ip[r] < Len(script[r])
          /\ ip'[r] = ip[r] + 1
          /\ NextOp(r).op = "Write" )
        => /\ status'[r] = status[r]
           /\ Len(rw'[r].body) = Len(rw[r].body) + 1

\* C4: a request whose inner handler never calls WriteHeader, whether it
\* writes a body or nothing at all, is recorded under status "200"; a body
\* write reaches the underlying writer and leaves the captured status alone.
C4_ImplicitStatusIs200 == [](C4_Inv) /\ [][C4_WritePassesThrough]_vars

\* C4 witness: a handler that only wrote a body has been recorded.
C4_Witness ==
    \E r \in Req :
        /\ pc[r] = "finished"
        /\ Len(script[r]) >= 1
        /\ NoSetStatus(r)
        /\ Len(rw[r].body) = Len(script[r])
        /\ labels[r][3] = "200"

\* What a series holds, and whether it exists.
SeriesState(l) ==
    <<l \in DOMAIN requestCounter, CounterValue(l),
      l \in DOMAIN requestDuration, HistogramCount(l),
      IF l \in DOMAIN requestDuration THEN requestDuration[l].sum ELSE 0>>

C5_Inv ==
    \A r \in Req :
        (pc[r] \in PosReturned /\ method[r] # "GET") =>
            /\ rw[r].code = 405
            /\ rw[r].sentType = "text/plain; charset=utf-8"
            /\ rw[r].body = <<[text |-> "method not allowed"]>>
            /\ pc[r] \in PosLabelled => labels[r] = <<method[r], "/hello", "405">>

C5_TouchesOnly405 ==
    \A r \in Req :
        (method[r] \notin {"", "GET"} /\ pc'[r] # pc[r]) =>
            \A l \in (AllSeries \cup AllSeries') \ {<<method[r], "/hello", "405">>} :
                SeriesState(l)' = SeriesState(l)

\* C5: a request whose method is not GET is answered 405 with the plain-text
\* body "method not allowed", never a greeting, and its steps change no
\* series but the counter and the histogram of (method, "/hello", "405").
C5_NonGetIs405 == [](C5_Inv) /\ [][C5_TouchesOnly405]_vars

\* C5 witness: a POST is complete and recorded under "405".
C5_Witness ==
    \E r \in Req :
        /\ pc[r] = "finished"
        /\ method[r] = "POST"
        /\ CounterValue(<<"POST", "/hello", "405">>) >= 1
        /\ HistogramCount(<<"POST", "/hello", "405">>) >= 1

\* The greeting a query asks for.
ExpectedMessage(q) == IF q = "Ann" THEN "Hello Ann" ELSE "Hello World"

NewAppRequest == \E r \in Req : pc[r] = "idle" /\ pc'[r] # "idle"
NewScrape == \E s \in Scrape : scrapePc[s] = "idle" /\ scrapePc'[s] # "idle"

\* C7 as stated: after the signal no new request is accepted on either
\* listener.
C7_NoAcceptAfterSignal ==
    [][mainPc # "serving" => ~NewAppRequest /\ ~NewScrape]_vars

C7_ListenersClosedInOrder ==
    /\ mainPc \in {"httpShutdown", "metricsShutdown", "done"} <=> httpListener = "closed"
    /\ mainPc \in {"metricsShutdown", "done"} <=> metricsListener = "closed"

\* C7, amended: after the signal main closes the application listener when it
\* enters httpServer.Shutdown and the metrics listener only when that call
\* has returned; a closed listener accepts no new request; and, both
\* Shutdown calls being bounded by the one deadline, main reaches "shutdown
\* complete" whether or not the servers drain.
C7_ShutdownSequence ==
    /\ [](C7_ListenersClosedInOrder)
    /\ [][(httpListener = "closed" => ~NewAppRequest)
            /\ (metricsListener = "closed" => ~NewScrape)]_vars
    /\ (mainPc # "serving" ~> mainPc = "done")

\* C7 witness: main is done while a request never finished: the deadline,
\* not the drain, ended the wait.
C7_Witness ==
    /\ mainPc = "done"
    /\ ctxExpired
    /\ \E r \in Req : InFlight(r)

\* C8 as stated: when a request's metrics are updated its response has
\* already been flushed to the client.
C8_FlushedBeforeMetrics ==
    \A r \in Req : pc[r] \in PosCounted => rw[r].done

\* C8, amended: the metrics of a request are updated after its inner handler
\* has returned and handed its response to the writer, and before the
\* middleware returns; the server completes the response (its final flush)
\* only after that, so a completed response is always already recorded.
C8_MetricsPrecedeCompletion ==
    \A r \in Req :
        /\ pc[r] \in {"labelled", "counted", "observed"} =>
              ~rw[r].done /\ rw[r].code # 0
        /\ rw[r].done =>
              /\ CounterValue(labels[r]) >= 1
              /\ HistogramCount(labels[r]) >= 1

\* C8 witness: a request is counted and observed, its response not complete.
C8_Witness ==
    \E r \in Req :
        /\ pc[r] = "observed"
        /\ ~rw[r].done
        /\ CounterValue(labels[r]) = 1
        /\ HistogramCount(labels[r]) = 1

\* The steps a request's goroutine can take, in order.
C9_Successors ==
    {<<"idle", "accepted">>, <<"accepted", "handler">>,
     <<"handler", "encodeFailed">>, <<"handler", "returned">>,
     <<"encodeFailed", "returned">>, <<"returned", "labelled">>,
     <<"labelled", "counted">>, <<"counted", "observed">>,
     <<"observed", "finished">>}

C9_Step ==
    /\ \A r \in Req :
          /\ pc'[r] # pc[r] => <<pc[r], pc'[r]>> \in C9_Successors
          /\ status'[r] # status[r] => pc[r] \in {"accepted", "handler", "encodeFailed"}
          /\ rw'[r] # rw[r] => pc[r] \in {"handler", "encodeFailed", "observed"}
          /\ labels'[r] # labels[r] =>
                /\ pc[r] = "returned"
                /\ labels[r] = NoLabels
                /\ labels'[r][3] = StatusString(status[r])
    /\ requestCounter' # requestCounter =>
          \E r \in Req : pc[r] = "labelled" /\ pc'[r] = "counted"
    /\ requestDuration' # requestDuration =>
          \E r \in Req : pc[r] = "counted" /\ pc'[r] = "observed"

C9_Inv ==
    \A r \in Req :
        /\ pc[r] \in {"idle", "accepted"} => status[r] = 0 /\ rw[r] = FreshRW
        /\ pc[r] \notin PosLabelled => labels[r] = NoLabels
        /\ pc[r] = "labelled" =>
              CounterValue(labels[r]) = Cardinality(Recorded(PosCounted, labels[r]))
        /\ pc[r] = "counted" =>
              CounterValue(labels[r]) > HistogramCount(labels[r])
        /\ pc[r] \in PosObserved =>
              CounterValue(labels[r]) >= 1 /\ HistogramCount(labels[r]) >= 1

\* C9: within a request the middleware starts, the inner handler runs with
\* the wrapped writer and returns, the captured status is read once, the
\* counter is incremented, the histogram is observed, and only then the
\* middleware returns: no status is set after the read, and a middleware that
\* has returned has made both updates.
C9_RequestOrder == [](C9_Inv) /\ [][C9_Step]_vars

\* C9 witness: a request whose handler set a status has been observed.
C9_Witness ==
    \E r \in Req :
        /\ pc[r] = "observed"
        /\ status[r] = 405
        /\ labels[r][3] = "405"
        /\ HistogramCount(labels[r]) >= 1

====
